---- MODULE Spec2Model ----
(***************************************************************************)
(* CommitGen: the `gen` command (CommitGenCommand.run), its Change Lister   *)
(* (parseGitStatus) and the three analysis strategies.                      *)
(*                                                                          *)
(* Representation.  A JavaScript string that the code takes apart           *)
(* (a status line, a status code, a path) is a sequence of one-character    *)
(* strings; Str turns it into a TLA+ string where the code interpolates it  *)
(* into a template.  A text made of "\n"-terminated lines is the sequence   *)
(* of its lines; a line is a record [tag, num, text] that keeps the         *)
(* interpolated number apart from the interpolated text.                    *)
(*                                                                          *)
(* Two revisions of CommitGenCommand are modelled:                          *)
(*   "cli"  src/src/cli/cli.module.ts           (reports joined in message) *)
(*   "adr"  src/adrs/001-arquitetura-inicial.md (verbose flag, staged diff, *)
(*          text-generation call)                                           *)
(* A third one (src/unnamed/part_000) is the cli revision with a banner and *)
(* a fourth CommitMessageStrategy, whose source the repository lacks.       *)
(***************************************************************************)
EXTENDS Integers, Sequences, FiniteSets, TLC

VARIABLES
    rev,          \* which revision of CommitGenCommand this instance is
    verbose,      \* CommitGenCommand.verbose (adr revision)
    options,      \* the options object handed to run
    cmd,          \* the command line of the current invocation
    pc,           \* position inside run
    idx,          \* forEach position in this.strategies (0-based)
    listed,       \* what parseGitStatus returned to run
    filesChanged, \* the array object bound to filesChanged, as it is now
    diffOutput,   \* result of `git diff --staged`
    message,      \* the `message` accumulator (cli revision)
    commitMessage,\* result awaited from generateCommitMessage
    stdout,       \* console.log calls of the current invocation, in order
    stderr,       \* console.error calls of the current invocation
    exitCode,     \* process exit status (0 until process.exit)
    error,        \* the exception caught by run's catch clause
    calls,        \* collaborators invoked by the current run, with arguments
    prev,         \* the previous completed run of this instance
    applied,      \* strategy applied last (strategy harness)
    report,       \* what that analyze call returned or threw
    statusOutput, \* result of `git status --porcelain`
    prompt,       \* the prompt as the text-generation process receives it
    response,     \* what the text-generation process wrote
    tempFile,     \* the file os.tmpdir()/prompt.txt (temp-file revision)
    filesChanges  \* argument of generateCommitMessage (temp-file revision)

vars == << rev, verbose, options, cmd, pc, idx, listed, filesChanged,
           diffOutput, message, commitMessage, stdout, stderr, exitCode,
           error, calls, prev, applied, report, statusOutput, prompt,
           response, tempFile, filesChanges >>

(***************************************************************************)
(* Bounds                                                                   *)
(***************************************************************************)
MaxFiles == 3      \* longest ChangeSet handed to a strategy in StrategySpec
MaxLines == 2      \* most lines of `git status --porcelain` output in Spec
MaxOutputChars == 6 \* longest status output handed to the parser in ParseSpec

(***************************************************************************)
(* Strings                                                                  *)
(***************************************************************************)
RECURSIVE Str(_)
Str(s) == IF s = << >> THEN "" ELSE Head(s) \o Str(Tail(s))

Digits == {"0", "1", "2", "3", "4", "5", "6", "7", "8", "9"}

Whitespace == {" ", "\t", "\n", "\r"}

\* String.prototype.slice(from) and slice(from, to), 0-based, to exclusive
Slice(s, from, to) ==
    LET lo == IF from > Len(s) THEN Len(s) ELSE from
        hi == IF to > Len(s) THEN Len(s) ELSE to
    IN  IF hi <= lo THEN << >> ELSE SubSeq(s, lo + 1, hi)

RECURSIVE TrimStart(_)
TrimStart(s) ==
    IF s # << >> /\ Head(s) \in Whitespace THEN TrimStart(Tail(s)) ELSE s

RECURSIVE TrimEnd(_)
TrimEnd(s) ==
    IF s # << >> /\ s[Len(s)] \in Whitespace
    THEN TrimEnd(SubSeq(s, 1, Len(s) - 1))
    ELSE s

Trim(s) == TrimEnd(TrimStart(s))

(***************************************************************************)
(* path.dirname / path.basename (POSIX flavour of Node's path module)       *)
(***************************************************************************)
\* index of the slash that ends the directory part: the last "/" at 0-based
\* position >= 1 that has a non-slash character after it; 0 when none
DirnameEnd(p) ==
    LET cand == { i \in 2..Len(p) :
                    /\ p[i] = "/"
                    /\ \E j \in (i + 1)..Len(p) : p[j] # "/" }
    IN  IF cand = {} THEN 0 ELSE CHOOSE i \in cand : \A j \in cand : j <= i

dirname(p) ==
    IF Len(p) = 0 THEN <<".">>
    ELSE LET hasRoot == p[1] = "/"
             e == DirnameEnd(p)
         IN  IF e = 0 THEN (IF hasRoot THEN <<"/">> ELSE <<".">>)
             ELSE IF hasRoot /\ e = 2 THEN <<"/", "/">>
             ELSE SubSeq(p, 1, e - 1)

basename(p) ==
    LET nonSlash == { i \in 1..Len(p) : p[i] # "/" }
    IN  IF nonSlash = {} THEN << >>
        ELSE LET e == CHOOSE i \in nonSlash : \A j \in nonSlash : j <= i
                 sl == { i \in 1..(e - 1) : p[i] = "/" }
                 s == IF sl = {} THEN 0
                      ELSE CHOOSE i \in sl : \A j \in sl : j <= i
             IN  SubSeq(p, s + 1, e)

(***************************************************************************)
(* Plain JavaScript objects used as maps: `{}` with Object.prototype        *)
(* behind it.  An object is the sequence of its own [k, v] properties in    *)
(* creation order.                                                          *)
(***************************************************************************)
\* property names every `{}` inherits from Object.prototype
ObjectPrototypeNames ==
    { "constructor", "__proto__", "toString", "toLocaleString", "valueOf",
      "hasOwnProperty", "isPrototypeOf", "propertyIsEnumerable",
      "__defineGetter__", "__defineSetter__", "__lookupGetter__",
      "__lookupSetter__" }

Inherited(k) == Str(k) \in ObjectPrototypeNames

HasOwn(obj, k) == \E i \in 1..Len(obj) : obj[i].k = k

OwnIndex(obj, k) == CHOOSE i \in 1..Len(obj) : obj[i].k = k

\* obj[k] = v: an existing own property keeps its place, a new one goes last
SetOwn(obj, k, v) ==
    IF HasOwn(obj, k)
    THEN [obj EXCEPT ![OwnIndex(obj, k)] = [k |-> k, v |-> v]]
    ELSE Append(obj, [k |-> k, v |-> v])

\* the largest array index, 2^32 - 2, digit by digit
MaxArrayIndex == <<"4", "2", "9", "4", "9", "6", "7", "2", "9", "4">>

RECURSIVE LexLess(_, _)
LexLess(a, b) ==
    IF a = << >> \/ b = << >> THEN FALSE
    ELSE LET da == CHOOSE n \in 0..9 : ToString(n) = Head(a)
             db == CHOOSE n \in 0..9 : ToString(n) = Head(b)
         IN  IF da # db THEN da < db ELSE LexLess(Tail(a), Tail(b))

\* numeric order of two canonical numeric strings
IndexLess(a, b) ==
    \/ Len(a) < Len(b)
    \/ Len(a) = Len(b) /\ LexLess(a, b)

\* a property name that is an array index (a canonical numeric string up to
\* 2^32 - 2): OrdinaryOwnPropertyKeys lists these first, in ascending order
IsArrayIndex(k) ==
    /\ k # << >>
    /\ \A i \in 1..Len(k) : k[i] \in Digits
    /\ (Len(k) = 1 \/ k[1] # "0")
    /\ ~ IndexLess(MaxArrayIndex, k)

\* Object.entries(obj): array-index keys ascending, then the other keys in
\* creation order
ObjectEntries(obj) ==
    LET isIdx(e) == IsArrayIndex(e.k)
        notIdx(e) == ~ IsArrayIndex(e.k)
        less(e1, e2) == IndexLess(e1.k, e2.k)
    IN  SortSeq(SelectSeq(obj, isIdx), less) \o SelectSeq(obj, notIdx)

(***************************************************************************)
(* Texts: sequences of lines                                                *)
(***************************************************************************)
TextLine(s) == [tag |-> "text", num |-> 0, text |-> s]

BlankLine == TextLine("")

\* `${num}. ${text}`
ItemLine(n, s) == [tag |-> "item", num |-> n, text |-> s]

\* `${text}/ (${num} arquivo(s)):`
DirLine(s, n) == [tag |-> "dir", num |-> n, text |-> s]

\* `  - ${text}`
BulletLine(s) == [tag |-> "bullet", num |-> 0, text |-> s]

\* `- ${num} arquivo(s) ${text}`
TypeLine(n, s) == [tag |-> "type", num |-> n, text |-> s]

\* an analyze call that returned `text`, leaving its argument as `files`
Returned(text, files) ==
    [thrown |-> FALSE, text |-> text, files |-> files, error |-> ""]

\* an analyze call that threw an Error with message `msg`
Thrown(msg, files) ==
    [thrown |-> TRUE, text |-> << >>, files |-> files, error |-> msg]

\* what a template literal shows for a value inherited from Object.prototype
InheritedText(k) ==
    IF Str(k) = "__proto__" THEN "[object Object]"
    ELSE IF Str(k) = "constructor" THEN "function Object() { [native code] }"
    ELSE "function " \o Str(k) \o "() { [native code] }"

(***************************************************************************)
(* FileListStrategy                                                         *)
(***************************************************************************)
FileListDescriptions ==
    << [k |-> <<"M">>, v |-> "modificado"],
       [k |-> <<"A">>, v |-> "adicionado"],
       [k |-> <<"D">>, v |-> "deletado"],
       [k |-> <<"R">>, v |-> "renomeado"],
       [k |-> <<"?", "?">>, v |-> "não rastreado"] >>

\* descriptions[status] || status
FileListStrategy_getStatusDescription(status) ==
    IF HasOwn(FileListDescriptions, status)
    THEN FileListDescriptions[OwnIndex(FileListDescriptions, status)].v
    ELSE IF Inherited(status) THEN InheritedText(status)
    ELSE Str(status)

\* the number printed for the record at forEach position `index`
FileListNumberFromZero(index) == index

FileListNumber(index) == index + 1

FileListEntry(rec) ==
    LET statusDesc == FileListStrategy_getStatusDescription(rec.status)
        dir == dirname(rec.file)
        fileName == basename(rec.file)
        prefix == IF dir = <<".">> THEN "" ELSE Str(dir) \o "/"
    IN  prefix \o Str(fileName) \o " (" \o statusDesc \o ")"

\* a loop that consumes its argument with files.shift()
FileListStrategy_analyzeConsuming(files) ==
    Returned(
        <<TextLine("Arquivos alterados:")>> \o
        [i \in 1..Len(files) |->
            ItemLine(FileListNumber(i - 1), FileListEntry(files[i]))],
        << >>)

FileListStrategy_analyze(files) ==
    Returned(
        <<TextLine("Arquivos alterados:")>> \o
        [i \in 1..Len(files) |->
            ItemLine(FileListNumber(i - 1), FileListEntry(files[i]))],
        files)

(***************************************************************************)
(* DirectorySummaryStrategy                                                 *)
(***************************************************************************)
\* path.dirname(file) || '.'
DirectoryOf(file) ==
    LET d == dirname(file) IN IF d = << >> THEN <<".">> ELSE d

\* files.reduce(..., {}): [thrown, obj]
RECURSIVE groupFilesByDirectory(_, _)
groupFilesByDirectory(acc, files) ==
    IF files = << >> THEN [thrown |-> FALSE, obj |-> acc]
    ELSE LET file == Head(files).file
             dir == DirectoryOf(file)
         IN  IF HasOwn(acc, dir)
             THEN groupFilesByDirectory(
                      SetOwn(acc, dir,
                             Append(acc[OwnIndex(acc, dir)].v, basename(file))),
                      Tail(files))
             ELSE IF Inherited(dir)
                  \* acc[dir] is truthy, so no array is created, and the
                  \* inherited value has no push
                  THEN [thrown |-> TRUE, obj |-> acc]
                  ELSE groupFilesByDirectory(
                           SetOwn(acc, dir, <<basename(file)>>), Tail(files))

DirectoryName(dir) == IF dir = <<".">> THEN "raiz" ELSE Str(dir)

DirectoryBlock(entry) ==
    <<BlankLine, DirLine(DirectoryName(entry.k), Len(entry.v))>> \o
    [i \in 1..Len(entry.v) |-> BulletLine(Str(entry.v[i]))]

RECURSIVE DirectoryBlocks(_)
DirectoryBlocks(entries) ==
    IF entries = << >> THEN << >>
    ELSE DirectoryBlock(Head(entries)) \o DirectoryBlocks(Tail(entries))

DirectorySummaryStrategy_analyze(files) ==
    LET filesByDir == groupFilesByDirectory(<< >>, files)
    IN  IF filesByDir.thrown
        THEN Thrown("acc[dir].push is not a function", files)
        ELSE Returned(
                 <<BlankLine, TextLine("Resumo por diretório:")>> \o
                 DirectoryBlocks(ObjectEntries(filesByDir.obj)),
                 files)

(***************************************************************************)
(* TypeSummaryStrategy                                                      *)
(***************************************************************************)
\* acc[status] = (acc[status] || 0) + 1.  A count of -1 stands for the text
\* that `+ 1` makes of a value inherited from Object.prototype.
CountStatusSetToOne(acc, status) == SetOwn(acc, status, 1)

CountStatus(acc, status) ==
    IF HasOwn(acc, status)
    THEN LET old == acc[OwnIndex(acc, status)].v
         IN  SetOwn(acc, status, IF old < 0 THEN old ELSE old + 1)
    ELSE IF Inherited(status)
         THEN (IF Str(status) = "__proto__" THEN acc
               ELSE SetOwn(acc, status, -1))
         ELSE SetOwn(acc, status, 1)

RECURSIVE countStatusTypes(_, _)
countStatusTypes(acc, files) ==
    IF files = << >> THEN acc
    ELSE countStatusTypes(CountStatus(acc, Head(files).status), Tail(files))

TypeSummaryDescriptions ==
    << [k |-> <<"M">>, v |-> "modificado"],
       [k |-> <<"A">>, v |-> "adicionado"],
       [k |-> <<"D">>, v |-> "deletado"],
       [k |-> <<"R">>, v |-> "renomeado"],
       [k |-> <<"?", "?">>, v |-> "não rastreado"] >>

\* the description looked up by the first letter of the code only
TypeSummaryStrategy_getStatusDescriptionByFirstLetter(status) ==
    LET first == SubSeq(status, 1, IF Len(status) = 0 THEN 0 ELSE 1)
    IN  IF HasOwn(TypeSummaryDescriptions, first)
        THEN TypeSummaryDescriptions[OwnIndex(TypeSummaryDescriptions, first)].v
        ELSE Str(status)

TypeSummaryStrategy_getStatusDescription(status) ==
    IF HasOwn(TypeSummaryDescriptions, status)
    THEN TypeSummaryDescriptions[OwnIndex(TypeSummaryDescriptions, status)].v
    ELSE IF Inherited(status) THEN InheritedText(status)
    ELSE Str(status)

TypeSummaryStrategy_analyze(files) ==
    LET statusTypes == ObjectEntries(countStatusTypes(<< >>, files))
    IN  Returned(
            <<BlankLine, TextLine("Tipos de alteração:")>> \o
            [i \in 1..Len(statusTypes) |->
                TypeLine(statusTypes[i].v,
                         TypeSummaryStrategy_getStatusDescription(
                             statusTypes[i].k))],
            files)

(***************************************************************************)
(* parseGitStatus (the Change Lister's parsing)                             *)
(***************************************************************************)
\* statusOutput.split('\n')
RECURSIVE SplitLines(_, _)
SplitLines(cur, s) ==
    IF s = << >> THEN <<cur>>
    ELSE IF Head(s) = "\n" THEN <<cur>> \o SplitLines(<< >>, Tail(s))
    ELSE SplitLines(Append(cur, Head(s)), Tail(s))

\* the path taken from offset 2 instead of 3
parseGitStatusFromTwo(output) ==
    LET nonBlank(line) == Len(Trim(line)) > 0
        lines == SelectSeq(SplitLines(<< >>, output), nonBlank)
    IN  [i \in 1..Len(lines) |->
            [status |-> Trim(Slice(lines[i], 0, 2)),
             file |-> Trim(Slice(lines[i], 2, Len(lines[i])))]]

\* lines too short to hold a path filtered out
parseGitStatusSkipShort(output) ==
    LET wellFormed(line) == Len(Trim(line)) > 0 /\ Len(line) >= 4
        lines == SelectSeq(SplitLines(<< >>, output), wellFormed)
    IN  [i \in 1..Len(lines) |->
            [status |-> Trim(Slice(lines[i], 0, 2)),
             file |-> Trim(Slice(lines[i], 3, Len(lines[i])))]]

parseGitStatus(output) ==
    LET nonBlank(line) == Len(Trim(line)) > 0
        lines == SelectSeq(SplitLines(<< >>, output), nonBlank)
    IN  [i \in 1..Len(lines) |->
            [status |-> Trim(Slice(lines[i], 0, 2)),
             file |-> Trim(Slice(lines[i], 3, Len(lines[i])))]]

(***************************************************************************)
(* Inputs                                                                   *)
(***************************************************************************)
\* sequences over S of length at most n
SeqsUpTo(S, n) == UNION { [1..k -> S] : k \in 0..n }

\* ChangeRecords handed to the strategies on their own: files in the root,
\* two in one directory, directories named by numbers, every known code,
\* unknown codes, an empty code, directories named like members of
\* Object.prototype, and a directory named "raiz"
StrategyRecords ==
    { [status |-> <<"M">>, file |-> <<"a">>],
      [status |-> <<"A">>, file |-> <<"s", "/", "a">>],
      [status |-> <<"?", "?">>, file |-> <<"s", "/", "b">>],
      [status |-> <<"M">>, file |-> <<"1", "0", "/", "a">>],
      [status |-> <<"M", "M">>, file |-> <<"2", "/", "a">>],
      [status |-> <<"D">>,
       file |-> <<"c", "o", "n", "s", "t", "r", "u", "c", "t", "o", "r",
                  "/", "a">>],
      [status |-> << >>,
       file |-> <<"_", "_", "p", "r", "o", "t", "o", "_", "_", "/", "a">>],
      [status |-> <<"R">>, file |-> <<"r", "a", "i", "z", "/", "b">>],
      [status |-> <<"A", "M">>, file |-> <<"b">>] }

StrategyChangeSets == SeqsUpTo(StrategyRecords, MaxFiles)

\* lines of `git status --porcelain`: " M a", "A  s/b", "?? constructor/c"
StatusLines ==
    { <<" ", "M", " ", "a">>,
      <<"A", " ", " ", "s", "/", "b">>,
      <<"?", "?", " ", "c", "o", "n", "s", "t", "r", "u", "c", "t", "o", "r",
        "/", "c">> }

\* each line of the tool's output ends with a newline
RECURSIVE JoinLines(_)
JoinLines(ls) ==
    IF ls = << >> THEN << >>
    ELSE Head(ls) \o <<"\n">> \o JoinLines(Tail(ls))

StatusOutputs == { JoinLines(ls) : ls \in SeqsUpTo(StatusLines, MaxLines) }

\* bodies of `git diff --staged`
DiffBodies == { <<"+", "a">>, <<"+", "'", "a", "´">> }

\* what the text-generation process writes to its standard output
Responses == { <<"o", "k">>, <<" ", "o", "k", "\n">> }

\* values of the --tipo argument; Undefined when it is not given
Undefined == "<undefined>"

TipoArgs == { Undefined, "fix" }

(***************************************************************************)
(* CommitGenCommand                                                         *)
(***************************************************************************)
\* this.strategies, in registration order
strategiesReordered ==
    <<"DirectorySummaryStrategy", "FileListStrategy", "TypeSummaryStrategy">>

strategies ==
    <<"FileListStrategy", "DirectorySummaryStrategy", "TypeSummaryStrategy">>

\* strategy.analyze(filesChanged, options): none of the three reads options
analyze(strategy, files) ==
    CASE strategy = "FileListStrategy" -> FileListStrategy_analyze(files)
      [] strategy = "DirectorySummaryStrategy" ->
             DirectorySummaryStrategy_analyze(files)
      [] strategy = "TypeSummaryStrategy" -> TypeSummaryStrategy_analyze(files)

\* options.tipo || 'feat'
TipoOrFeat(tipo) == IF tipo = Undefined \/ tipo = "" THEN "feat" ELSE tipo

\* parseVerbose: this.verbose = true
parseVerboseToggle(v) == ~ v

parseVerbose(v) == TRUE

\* the options object nest-commander builds: the adr revision declares
\* defaultValue 'feat' for --tipo, the cli revision declares none
BuildOptions(r, tipoArg) ==
    [tipo |-> IF r = "adr" /\ tipoArg = Undefined THEN "feat" ELSE tipoArg]

\* one console.log / console.error call
Printed(kind, lines) == [kind |-> kind, lines |-> lines]

NoChangesLine(opts) ==
    TextLine(TipoOrFeat(opts.tipo) \o ": sem arquivos alterados")

\* `${options.tipo || 'feat'}: alterações em ${n} arquivo(s)\n\n`
MessageHeader(opts, files) ==
    << TextLine(TipoOrFeat(opts.tipo) \o ": alterações em " \o
                ToString(Len(files)) \o " arquivo(s)"),
       BlankLine >>

\* cabecalho: the seven rows of the COMMIT GEN banner and its "\n\n\n"
Banner == << [tag |-> "banner", num |-> 0, text |-> "COMMIT GEN"],
             BlankLine, BlankLine >>

NoError == [raised |-> FALSE, message |-> ""]

Raised(msg) == [raised |-> TRUE, message |-> msg]

NoPrev == [valid |-> FALSE, files |-> << >>, cmd |-> [tipo |-> Undefined, v |-> FALSE],
           out |-> << >>]

\* what the analysis pipeline printed: everything but the generated message
PipelineOutput ==
    LET notCommit(p) == p.kind # "commit" IN SelectSeq(stdout, notCommit)

\* console.error('Erro:', error.message); process.exit(1)
CatchSwallow(err) == [line |-> TextLine("Erro: " \o err.message), code |-> 0]

CatchClause(err) == [line |-> TextLine("Erro: " \o err.message), code |-> 1]

(***************************************************************************)
(* AiMessageGeneratorController.generateCommitMessage(diffOutput, tipo)     *)
(***************************************************************************)
\* the fixed text of the prompt before the diff (the instructions and the
\* "CONTEXT(Git Diff)" heading), abbreviated; it holds no quote character
PromptHead == <<"I", "N", "S", "T", "R", "U", "C", "T", "I", "O", "N", "S",
                "\n", "C", "O", "N", "T", "E", "X", "T", "\n">>

\* the fixed text after the diff: a blank line and indentation
PromptTail == <<"\n", "\n", " ">>

\* diffOutput.replace("'", '"'): without the g flag only the first match
ReplaceFirstQuote(s) ==
    LET q == { i \in 1..Len(s) : s[i] \in {"'", "´"} }
    IN  IF q = {} THEN s
        ELSE [s EXCEPT ![CHOOSE i \in q : \A j \in q : i <= j] = "\""]

\* diffOutput.replace(/['´]/g, '"')
ReplaceQuotes(s) ==
    [i \in 1..Len(s) |-> IF s[i] \in {"'", "´"} THEN "\"" ELSE s[i]]

BuildPrompt(diff) == PromptHead \o ReplaceQuotes(diff) \o PromptTail

\* `ollama run deepseek-r1:latest '${prompt}'`, the command name abbreviated
OllamaCommand(p) == <<"o", "l", "l", "a", "m", "a", " ", "'">> \o p \o <<"'">>

\* the argument /bin/sh hands to the process: the text between the two
\* single quotes.  With any other number of quotes the shell cuts the word
\* elsewhere; ReplaceQuotes leaves none in the prompt, so that case is not
\* reached and is taken as a command that does not run.
ShellArgument(command) ==
    LET q == { i \in 1..Len(command) : command[i] = "'" }
    IN  IF Cardinality(q) = 2
        THEN LET a == CHOOSE i \in q : \A j \in q : i <= j
                 b == CHOOSE i \in q : \A j \in q : j <= i
             IN  [ok |-> TRUE, arg |-> SubSeq(command, a + 1, b - 1)]
        ELSE [ok |-> FALSE, arg |-> << >>]

harnessVars == << applied, report >>

tempVars == << tempFile, filesChanges >>

\* no file at os.tmpdir()/prompt.txt
NoFile == [exists |-> FALSE, content |-> << >>]

\* nest-commander parses the command line, calls the option parsers and then
\* run(inputs, options)
Invoke ==
    /\ pc \in {"idle", "done"}
    /\ \E t \in TipoArgs, v \in BOOLEAN :
          /\ rev = "cli" => ~ v
          /\ cmd' = [tipo |-> t, v |-> v]
          /\ options' = BuildOptions(rev, t)
          /\ verbose' = IF v THEN parseVerbose(verbose) ELSE verbose
          /\ stdout' = IF v
                       THEN <<Printed("option",
                                      <<TextLine("Modo verbose ativado")>>)>>
                       ELSE << >>
    /\ prev' = IF pc = "done"
               THEN [valid |-> TRUE, files |-> listed, cmd |-> cmd,
                     out |-> PipelineOutput]
               ELSE prev
    /\ pc' = "status"
    /\ idx' = 0
    /\ listed' = << >>
    /\ filesChanged' = << >>
    /\ diffOutput' = << >>
    /\ message' = << >>
    /\ commitMessage' = << >>
    /\ stderr' = << >>
    /\ error' = NoError
    /\ calls' = << >>
    /\ statusOutput' = << >>
    /\ prompt' = << >>
    /\ response' = << >>
    /\ UNCHANGED << rev, exitCode, harnessVars, tempVars >>

\* execSync('git status --porcelain') and parseGitStatus
StatusListing ==
    /\ pc = "status"
    /\ \E out \in StatusOutputs :
          /\ statusOutput' = out
          /\ listed' = parseGitStatus(out)
          /\ filesChanged' = parseGitStatus(out)
    /\ pc' = IF rev = "adr" THEN "diff" ELSE "check"
    /\ UNCHANGED << rev, verbose, options, cmd, idx, diffOutput, message,
                    commitMessage, stdout, stderr, exitCode, error, calls,
                    prev, harnessVars, prompt, response,
                    tempVars >>

StatusListingFails ==
    /\ pc = "status"
    /\ error' = Raised("Command failed: git status --porcelain")
    /\ pc' = "catch"
    /\ UNCHANGED << rev, verbose, options, cmd, idx, listed, filesChanged,
                    diffOutput, message, commitMessage, stdout, stderr,
                    exitCode, calls, prev, harnessVars, statusOutput,
                    prompt, response, tempVars >>

\* execSync('git diff --staged'), before the emptiness check (adr revision)
DiffListing ==
    /\ pc = "diff"
    /\ \E d \in DiffBodies : diffOutput' = d
    /\ pc' = "check"
    /\ UNCHANGED << rev, verbose, options, cmd, idx, listed, filesChanged,
                    message, commitMessage, stdout, stderr, exitCode, error,
                    calls, prev, harnessVars, statusOutput,
                    prompt, response, tempVars >>

DiffListingFails ==
    /\ pc = "diff"
    /\ error' = Raised("Command failed: git diff --staged")
    /\ pc' = "catch"
    /\ UNCHANGED << rev, verbose, options, cmd, idx, listed, filesChanged,
                    diffOutput, message, commitMessage, stdout, stderr,
                    exitCode, calls, prev, harnessVars, statusOutput,
                    prompt, response, tempVars >>

\* the emptiness check without its `return`: run goes on to the strategies
NoChangesFallsThrough ==
    /\ pc = "check"
    /\ Len(filesChanged) = 0
    /\ stdout' = Append(stdout, Printed("nochanges", <<NoChangesLine(options)>>))
    /\ pc' = "strategies"
    /\ UNCHANGED << rev, verbose, options, cmd, idx, listed, filesChanged,
                    diffOutput, message, commitMessage, stderr, exitCode,
                    error, calls, prev, harnessVars, statusOutput,
                    prompt, response, tempVars >>

\* if (filesChanged.length === 0) { console.log(...); return; }
NoChanges ==
    /\ pc = "check"
    /\ Len(filesChanged) = 0
    /\ stdout' = Append(stdout, Printed("nochanges", <<NoChangesLine(options)>>))
    /\ pc' = "done"
    /\ UNCHANGED << rev, verbose, options, cmd, idx, listed, filesChanged,
                    diffOutput, message, commitMessage, stderr, exitCode,
                    error, calls, prev, harnessVars, statusOutput,
                    prompt, response, tempVars >>

\* the message header (cli revision) or the printed banner (adr revision)
StartReport ==
    /\ pc = "check"
    /\ Len(filesChanged) # 0
    /\ IF rev = "cli"
       THEN /\ message' = MessageHeader(options, filesChanged)
            /\ stdout' = stdout
       ELSE /\ stdout' = Append(stdout, Printed("banner", Banner))
            /\ message' = message
    /\ idx' = 0
    /\ pc' = "strategies"
    /\ UNCHANGED << rev, verbose, options, cmd, listed, filesChanged,
                    diffOutput, commitMessage, stderr, exitCode, error,
                    calls, prev, harnessVars, statusOutput,
                    prompt, response, tempVars >>

\* one turn of this.strategies.forEach in which analyze is called
ApplyStrategy ==
    /\ pc = "strategies"
    /\ idx < Len(strategies)
    /\ rev = "adr" => verbose
    /\ LET strategy == strategies[idx + 1]
           r == analyze(strategy, filesChanged)
       IN  /\ calls' = Append(calls, [name |-> strategy, arg |-> filesChanged])
           /\ filesChanged' = r.files
           /\ IF r.thrown
              THEN /\ error' = Raised(r.error)
                   /\ pc' = "catch"
                   /\ UNCHANGED << idx, message, stdout >>
              ELSE /\ idx' = idx + 1
                   /\ IF rev = "cli"
                      THEN /\ message' = message \o r.text
                           /\ stdout' = stdout
                      ELSE /\ stdout' = Append(stdout, Printed("report", r.text))
                           /\ message' = message
                   /\ UNCHANGED << error, pc >>
    /\ UNCHANGED << rev, verbose, options, cmd, listed, diffOutput,
                    commitMessage, stderr, exitCode, prev, harnessVars, statusOutput,
                    prompt, response, tempVars >>

\* one turn of the forEach with this.verbose false (adr revision)
SkipStrategy ==
    /\ pc = "strategies"
    /\ idx < Len(strategies)
    /\ rev = "adr" /\ ~ verbose
    /\ idx' = idx + 1
    /\ UNCHANGED << rev, verbose, options, cmd, pc, listed, filesChanged,
                    diffOutput, message, commitMessage, stdout, stderr,
                    exitCode, error, calls, prev, harnessVars, statusOutput,
                    prompt, response, tempVars >>

\* console.log(message) (cli revision)
PrintMessage ==
    /\ pc = "strategies"
    /\ idx = Len(strategies)
    /\ rev = "cli"
    /\ stdout' = Append(stdout, Printed("message", message))
    /\ pc' = "done"
    /\ UNCHANGED << rev, verbose, options, cmd, idx, listed, filesChanged,
                    diffOutput, message, commitMessage, stderr, exitCode,
                    error, calls, prev, harnessVars, statusOutput,
                    prompt, response, tempVars >>

\* await this.aiGenerator.generateCommitMessage(diffOutput, options.tipo):
\* the external process answers and the answer is trimmed
GenerateCommitMessage ==
    /\ pc = "strategies"
    /\ idx = Len(strategies)
    /\ rev = "adr"
    /\ calls' = Append(calls, [name |-> "generateCommitMessage",
                               arg |-> diffOutput])
    /\ ShellArgument(OllamaCommand(BuildPrompt(diffOutput))).ok
    /\ prompt' = ShellArgument(OllamaCommand(BuildPrompt(diffOutput))).arg
    /\ \E r \in Responses :
          /\ response' = r
          /\ commitMessage' = Trim(r)
    /\ pc' = "print"
    /\ UNCHANGED << rev, verbose, options, cmd, idx, listed, filesChanged,
                    diffOutput, message, stdout, stderr, exitCode, error,
                    prev, harnessVars, statusOutput, tempVars >>

\* the external process fails; generateCommitMessage rethrows
GenerateCommitMessageFails ==
    /\ pc = "strategies"
    /\ idx = Len(strategies)
    /\ rev = "adr"
    /\ calls' = Append(calls, [name |-> "generateCommitMessage",
                               arg |-> diffOutput])
    /\ prompt' = ShellArgument(OllamaCommand(BuildPrompt(diffOutput))).arg
    /\ error' = Raised("Command failed: ollama run deepseek-r1:latest")
    /\ pc' = "catch"
    /\ UNCHANGED << rev, verbose, options, cmd, idx, listed, filesChanged,
                    diffOutput, message, commitMessage, stdout, stderr,
                    exitCode, prev, harnessVars, statusOutput, response,
                    tempVars >>

\* console.log(commitMessage)
PrintCommitMessage ==
    /\ pc = "print"
    /\ stdout' = Append(stdout,
                        Printed("commit", <<TextLine(Str(commitMessage))>>))
    /\ pc' = "done"
    /\ UNCHANGED << rev, verbose, options, cmd, idx, listed, filesChanged,
                    diffOutput, message, commitMessage, stderr, exitCode,
                    error, calls, prev, harnessVars, statusOutput,
                    prompt, response, tempVars >>

\* catch (error) { console.error('Erro:', error.message); process.exit(1); }
Catch ==
    /\ pc = "catch"
    /\ stderr' = Append(stderr, Printed("error", <<CatchClause(error).line>>))
    /\ exitCode' = CatchClause(error).code
    /\ pc' = "exited"
    /\ UNCHANGED << rev, verbose, options, cmd, idx, listed, filesChanged,
                    diffOutput, message, commitMessage, stdout, error, calls,
                    prev, harnessVars, statusOutput,
                    prompt, response, tempVars >>

Init ==
    /\ rev \in {"cli", "adr"}
    /\ verbose = FALSE
    /\ options = [tipo |-> Undefined]
    /\ cmd = [tipo |-> Undefined, v |-> FALSE]
    /\ pc = "idle"
    /\ idx = 0
    /\ listed = << >>
    /\ filesChanged = << >>
    /\ diffOutput = << >>
    /\ message = << >>
    /\ commitMessage = << >>
    /\ stdout = << >>
    /\ stderr = << >>
    /\ exitCode = 0
    /\ error = NoError
    /\ calls = << >>
    /\ prev = NoPrev
    /\ applied = "none"
    /\ report = Returned(<< >>, << >>)
    /\ statusOutput = << >>
    /\ prompt = << >>
    /\ response = << >>
    /\ tempFile = NoFile
    /\ filesChanges = << >>

Next ==
    \/ Invoke
    \/ StatusListing
    \/ StatusListingFails
    \/ DiffListing
    \/ DiffListingFails
    \/ NoChanges
    \/ StartReport
    \/ ApplyStrategy
    \/ SkipStrategy
    \/ PrintMessage
    \/ GenerateCommitMessage
    \/ GenerateCommitMessageFails
    \/ PrintCommitMessage
    \/ Catch

Spec == Init /\ [][Next]_vars

(***************************************************************************)
(* The strategies on their own: each analyze applied to a ChangeSet         *)
(***************************************************************************)
runVars == << rev, verbose, options, cmd, pc, idx, listed, diffOutput,
              message, commitMessage, stdout, stderr, exitCode, error, calls,
              prev, statusOutput, prompt, response, tempFile, filesChanges >>

StrategyInit ==
    /\ rev = "cli"
    /\ verbose = FALSE
    /\ options = [tipo |-> Undefined]
    /\ cmd = [tipo |-> Undefined, v |-> FALSE]
    /\ pc = "strategy"
    /\ idx = 0
    /\ filesChanged \in StrategyChangeSets
    /\ listed = filesChanged
    /\ diffOutput = << >>
    /\ message = << >>
    /\ commitMessage = << >>
    /\ stdout = << >>
    /\ stderr = << >>
    /\ exitCode = 0
    /\ error = NoError
    /\ calls = << >>
    /\ prev = NoPrev
    /\ applied = "none"
    /\ report = Returned(<< >>, << >>)
    /\ statusOutput = << >>
    /\ prompt = << >>
    /\ response = << >>
    /\ tempFile = NoFile
    /\ filesChanges = << >>

AnalyzeFileList ==
    /\ pc = "strategy"
    /\ applied' = "FileListStrategy"
    /\ report' = FileListStrategy_analyze(filesChanged)
    /\ filesChanged' = FileListStrategy_analyze(filesChanged).files
    /\ UNCHANGED runVars

AnalyzeDirectorySummary ==
    /\ pc = "strategy"
    /\ applied' = "DirectorySummaryStrategy"
    /\ report' = DirectorySummaryStrategy_analyze(filesChanged)
    /\ filesChanged' = DirectorySummaryStrategy_analyze(filesChanged).files
    /\ UNCHANGED runVars

AnalyzeTypeSummary ==
    /\ pc = "strategy"
    /\ applied' = "TypeSummaryStrategy"
    /\ report' = TypeSummaryStrategy_analyze(filesChanged)
    /\ filesChanged' = TypeSummaryStrategy_analyze(filesChanged).files
    /\ UNCHANGED runVars

StrategyNext ==
    \/ AnalyzeFileList
    \/ AnalyzeDirectorySummary
    \/ AnalyzeTypeSummary

StrategySpec == StrategyInit /\ [][StrategyNext]_vars

(***************************************************************************)
(* The Change Lister's parser on its own: parseGitStatus applied to any     *)
(* text over a status letter, a blank, a path letter and the newline        *)
(***************************************************************************)
ParseAlphabet == {"M", " ", "a", "\n"}

ParseInit ==
    /\ rev = "cli"
    /\ verbose = FALSE
    /\ options = [tipo |-> Undefined]
    /\ cmd = [tipo |-> Undefined, v |-> FALSE]
    /\ pc = "parse"
    /\ idx = 0
    /\ statusOutput \in SeqsUpTo(ParseAlphabet, MaxOutputChars)
    /\ listed = << >>
    /\ filesChanged = << >>
    /\ diffOutput = << >>
    /\ message = << >>
    /\ commitMessage = << >>
    /\ stdout = << >>
    /\ stderr = << >>
    /\ exitCode = 0
    /\ error = NoError
    /\ calls = << >>
    /\ prev = NoPrev
    /\ applied = "none"
    /\ report = Returned(<< >>, << >>)
    /\ prompt = << >>
    /\ response = << >>
    /\ tempFile = NoFile
    /\ filesChanges = << >>

\* const filesChanged = this.parseGitStatus(statusOutput): nothing is thrown
ParseStatus ==
    /\ pc = "parse"
    /\ listed' = parseGitStatus(statusOutput)
    /\ filesChanged' = parseGitStatus(statusOutput)
    /\ pc' = "parsed"
    /\ UNCHANGED << rev, verbose, options, cmd, idx, diffOutput, message,
                    commitMessage, stdout, stderr, exitCode, error, calls,
                    prev, harnessVars, statusOutput, prompt, response,
                    tempVars >>

ParseNext == ParseStatus

ParseSpec == ParseInit /\ [][ParseNext]_vars

(***************************************************************************)
(* generateCommitMessage(filesChanges, tipo) of the revision that hands the *)
(* prompt to the process through a temporary file                           *)
(***************************************************************************)
\* FileChanges values: a file with an addition and a removal, a file with
\* no changes
FileChangesPool ==
    { [file |-> "a.ts",
       changes |-> << [status |-> "+", content |-> "x"],
                      [status |-> "-", content |-> "y"] >>],
      [file |-> "b.ts", changes |-> << >>] }

\* a file left at os.tmpdir()/prompt.txt before the call
StaleFile == [exists |-> TRUE, content |-> <<"stale">>]

\* tipo: string = 'feat'
TipoDefault(t) == IF t = Undefined THEN "feat" ELSE t

CountStatusOf(changes, st) ==
    Cardinality({ i \in 1..Len(changes) : changes[i].status = st })

\* message += `alterações em ${file} (${additions} adições, ${removals} remoções)`
RECURSIVE DescribeChanges(_, _)
DescribeChanges(msg, files) ==
    IF files = << >> THEN msg
    ELSE DescribeChanges(
             msg \o "alterações em " \o Head(files).file \o " (" \o
             ToString(CountStatusOf(Head(files).changes, "+")) \o
             " adições, " \o
             ToString(CountStatusOf(Head(files).changes, "-")) \o
             " remoções)",
             Tail(files))

\* `${file}:` and one line `  ${c.status} ${c.content}` per change
FileChangesLines(fc) ==
    << fc.file \o ":" >> \o
    [i \in 1..Len(fc.changes) |->
        "  " \o fc.changes[i].status \o " " \o fc.changes[i].content]

RECURSIVE AllFileChangesLines(_)
AllFileChangesLines(files) ==
    IF files = << >> THEN << >>
    ELSE FileChangesLines(Head(files)) \o AllFileChangesLines(Tail(files))

\* the prompt, line by line, its fixed instructions abbreviated
TempFilePrompt(files) ==
    << "According to the changes below, generate a commit message",
       "---", "Arquivos alterados:" >> \o
    AllFileChangesLines(files) \o
    << "---", "- NEVER generate a single line message." >>

TempFileInit ==
    /\ rev = "adr"
    /\ verbose = FALSE
    /\ options \in { [tipo |-> t] : t \in TipoArgs }
    /\ cmd = [tipo |-> Undefined, v |-> FALSE]
    /\ pc = "temp"
    /\ idx = 0
    /\ filesChanges \in SeqsUpTo(FileChangesPool, MaxFiles)
    /\ tempFile \in {NoFile, StaleFile}
    /\ listed = << >>
    /\ filesChanged = << >>
    /\ diffOutput = << >>
    /\ message = << >>
    /\ commitMessage = << >>
    /\ stdout = << >>
    /\ stderr = << >>
    /\ exitCode = 0
    /\ error = NoError
    /\ calls = << >>
    /\ prev = NoPrev
    /\ applied = "none"
    /\ report = Returned(<< >>, << >>)
    /\ statusOutput = << >>
    /\ prompt = << >>
    /\ response = << >>

\* the message and the prompt are built and fs.writeFileSync(tempFilePath,
\* prompt) creates or replaces the file, before the try block
WriteTempFile ==
    /\ pc = "temp"
    /\ message' = << TextLine(DescribeChanges(TipoDefault(options.tipo) \o ": ",
                                              filesChanges)) >>
    /\ prompt' = TempFilePrompt(filesChanges)
    /\ tempFile' = [exists |-> TRUE, content |-> TempFilePrompt(filesChanges)]
    /\ pc' = "try"
    /\ UNCHANGED << rev, verbose, options, cmd, idx, listed, filesChanged,
                    diffOutput, commitMessage, stdout, stderr, exitCode,
                    error, calls, prev, harnessVars, statusOutput, response,
                    filesChanges >>

\* execSync(`ollama run gemma:latest < ${tempFilePath}`) returns
ExecOllama ==
    /\ pc = "try"
    /\ tempFile.exists
    /\ \E r \in Responses : response' = r
    /\ pc' = "unlink"
    /\ UNCHANGED << rev, verbose, options, cmd, idx, listed, filesChanged,
                    diffOutput, message, commitMessage, stdout, stderr,
                    exitCode, error, calls, prev, harnessVars, statusOutput,
                    prompt, tempVars >>

\* execSync throws: the process is missing or exits with a non-zero status
ExecOllamaFails ==
    /\ pc = "try"
    /\ error' = Raised("Command failed: ollama run gemma:latest")
    /\ pc' = "tempcatch"
    /\ UNCHANGED << rev, verbose, options, cmd, idx, listed, filesChanged,
                    diffOutput, message, commitMessage, stdout, stderr,
                    exitCode, calls, prev, harnessVars, statusOutput,
                    prompt, response, tempVars >>

\* fs.unlinkSync(tempFilePath); return result.trim()
UnlinkTempFile ==
    /\ pc = "unlink"
    /\ IF tempFile.exists
       THEN /\ tempFile' = NoFile
            /\ commitMessage' = Trim(response)
            /\ pc' = "returned"
            /\ error' = error
       ELSE /\ error' = Raised("ENOENT: no such file or directory, unlink")
            /\ pc' = "tempcatch"
            /\ UNCHANGED << tempFile, commitMessage >>
    /\ UNCHANGED << rev, verbose, options, cmd, idx, listed, filesChanged,
                    diffOutput, message, stdout, stderr, exitCode, calls,
                    prev, harnessVars, statusOutput, prompt, response,
                    filesChanges >>

\* the catch clause with the removal of the file left out
CatchKeepsTempFile ==
    /\ pc = "tempcatch"
    /\ pc' = "rethrown"
    /\ UNCHANGED << rev, verbose, options, cmd, idx, listed, filesChanged,
                    diffOutput, message, commitMessage, stdout, stderr,
                    exitCode, error, calls, prev, harnessVars, statusOutput,
                    prompt, response, tempVars >>

\* catch (error) { if (fs.existsSync(tempFilePath)) fs.unlinkSync(tempFilePath);
\* throw error; }
CatchTempFile ==
    /\ pc = "tempcatch"
    /\ tempFile' = IF tempFile.exists THEN NoFile ELSE tempFile
    /\ pc' = "rethrown"
    /\ UNCHANGED << rev, verbose, options, cmd, idx, listed, filesChanged,
                    diffOutput, message, commitMessage, stdout, stderr,
                    exitCode, error, calls, prev, harnessVars, statusOutput,
                    prompt, response, filesChanges >>

TempFileNext ==
    \/ WriteTempFile
    \/ ExecOllama
    \/ ExecOllamaFails
    \/ UnlinkTempFile
    \/ CatchTempFile

TempFileSpec == TempFileInit /\ [][TempFileNext]_vars

(***************************************************************************)
(* Properties                                                               *)
(***************************************************************************)
StrategyNames ==
    {"FileListStrategy", "DirectorySummaryStrategy", "TypeSummaryStrategy"}

\* the status listing of the current invocation has succeeded
StatusListed ==
    /\ pc \notin {"idle", "status", "strategy"}
    /\ ~ (error.raised /\ error.message = "Command failed: git status --porcelain")

\* what run itself printed (the option parser's line left out)
RunPrints == LET byRun(p) == p.kind # "option" IN SelectSeq(stdout, byRun)

PrintedOfKind(kind) == LET is(p) == p.kind = kind IN SelectSeq(stdout, is)

LinesTagged(text, tag) == LET is(l) == l.tag = tag IN SelectSeq(text, is)

StrategyCalls == LET is(c) == c.name \in StrategyNames IN SelectSeq(calls, is)

CallNames(cs) == [i \in 1..Len(cs) |-> cs[i].name]

IsPrefix(a, b) == Len(a) <= Len(b) /\ a = SubSeq(b, 1, Len(a))

RECURSIVE SumNum(_)
SumNum(lines) == IF lines = << >> THEN 0 ELSE Head(lines).num + SumNum(Tail(lines))

\* the elements of a sequence in the order of their first occurrence
RECURSIVE FirstSeen(_, _)
FirstSeen(seen, s) ==
    IF s = << >> THEN seen
    ELSE IF \E i \in 1..Len(seen) : seen[i] = Head(s)
         THEN FirstSeen(seen, Tail(s))
         ELSE FirstSeen(Append(seen, Head(s)), Tail(s))

\* the directory a record's path lies in, as the summary names it
ShownDirectory(rec) ==
    LET d == dirname(rec.file) IN IF d = <<".">> THEN "raiz" ELSE Str(d)

CountWhere(files, P(_)) == Cardinality({ i \in 1..Len(files) : P(files[i]) })

\* C1: when the status listing yields an empty ChangeSet, a finished run has
\* printed exactly the one line "<type>: sem arquivos alterados" ('feat'
\* when --tipo is absent), nothing on standard error, and has invoked no
\* strategy and no other collaborator.
C1_EmptyChangeSetPrintsOnlyNoChanges ==
    (StatusListed /\ listed = << >> /\ pc \in {"done", "exited"}) =>
        /\ RunPrints =
             << Printed("nochanges",
                        << TextLine((IF cmd.tipo = Undefined THEN "feat"
                                     ELSE cmd.tipo)
                                    \o ": sem arquivos alterados") >>) >>
        /\ stderr = << >>
        /\ calls = << >>

\* C2: FileListStrategy.analyze returns its header followed by exactly
\* len(ChangeSet) lines; line i is numbered i and shows the path and the
\* status description of record i.
C2_FileListNumbered ==
    applied = "FileListStrategy" =>
        /\ ~ report.thrown
        /\ Len(report.text) = 1 + Len(listed)
        /\ report.text[1] = TextLine("Arquivos alterados:")
        /\ \A i \in 1..Len(listed) :
              /\ report.text[i + 1].tag = "item"
              /\ report.text[i + 1].num = i
              /\ report.text[i + 1].text =
                    Str(listed[i].file) \o " (" \o
                    FileListStrategy_getStatusDescription(listed[i].status)
                    \o ")"

\* a duplicate path among three records has been listed
C2_Witness ==
    /\ applied = "FileListStrategy"
    /\ Len(listed) = 3
    /\ listed[1] = listed[3]
    /\ listed[1] # listed[2]
    /\ report.text[4].num = 3

\* C3: DirectorySummaryStrategy.analyze returns a summary whose
\* per-directory counts sum to len(ChangeSet), with one count line per
\* directory whose count is the number of records lying in that directory.
C3_DirectoryCountsSumToLen ==
    applied = "DirectorySummaryStrategy" =>
        /\ ~ report.thrown
        /\ SumNum(LinesTagged(report.text, "dir")) = Len(listed)
        /\ \A i \in 1..Len(listed) :
              LET d == ShownDirectory(listed[i])
                  inDir(rec) == ShownDirectory(rec) = d
                  isDir(l) == l.tag = "dir" /\ l.text = d
                  ls == SelectSeq(report.text, isDir)
              IN  Len(ls) = 1 /\ ls[1].num = CountWhere(listed, inDir)

\* C4: TypeSummaryStrategy.analyze returns exactly one count line per
\* distinct status code; the line of a code carries the number of records
\* with that code, and the counts sum to len(ChangeSet).
C4_TypeCountsPerStatus ==
    applied = "TypeSummaryStrategy" =>
        LET typeLines == LinesTagged(report.text, "type")
            codes == { listed[i].status : i \in 1..Len(listed) }
        IN  /\ ~ report.thrown
            /\ Len(report.text) = 2 + Len(typeLines)
            /\ Len(typeLines) = Cardinality(codes)
            /\ SumNum(typeLines) = Len(listed)
            /\ \A c \in codes :
                  LET hasCode(rec) == rec.status = c
                      isLine(l) ==
                          l.text = TypeSummaryStrategy_getStatusDescription(c)
                      ls == SelectSeq(typeLines, isLine)
                  IN  Len(ls) = 1 /\ ls[1].num = CountWhere(listed, hasCode)

\* three records, two of them with the same code, one with an unknown code
C4_Witness ==
    /\ applied = "TypeSummaryStrategy"
    /\ Len(listed) = 3
    /\ listed[1].status = <<"M">>
    /\ listed[2].status = <<"M", "M">>
    /\ listed[3].status = <<"M">>
    /\ listed[1].file # listed[3].file
    /\ LinesTagged(report.text, "type") =
          << TypeLine(2, "modificado"), TypeLine(1, "MM") >>

\* C5: the directories of DirectorySummaryStrategy and the status codes of
\* TypeSummaryStrategy are emitted in the order of their first occurrence in
\* the ChangeSet.
C5_FirstSeenOrder ==
    /\ (applied = "DirectorySummaryStrategy" /\ ~ report.thrown) =>
          LET dirLines == LinesTagged(report.text, "dir")
          IN  [i \in 1..Len(dirLines) |-> dirLines[i].text] =
              FirstSeen(<< >>,
                        [i \in 1..Len(listed) |-> ShownDirectory(listed[i])])
    /\ applied = "TypeSummaryStrategy" =>
          LET typeLines == LinesTagged(report.text, "type")
          IN  [i \in 1..Len(typeLines) |-> typeLines[i].text] =
              FirstSeen(<< >>,
                        [i \in 1..Len(listed) |->
                            TypeSummaryStrategy_getStatusDescription(
                                listed[i].status)])

\* C6: every analyze call returns a text and raises nothing; for the empty
\* ChangeSet the text is exactly the strategy's header.
C6_StrategiesTotal ==
    applied # "none" =>
        /\ ~ report.thrown
        /\ listed = << >> =>
              report.text =
                 CASE applied = "FileListStrategy" ->
                          << TextLine("Arquivos alterados:") >>
                   [] applied = "DirectorySummaryStrategy" ->
                          << BlankLine, TextLine("Resumo por diretório:") >>
                   [] applied = "TypeSummaryStrategy" ->
                          << BlankLine, TextLine("Tipos de alteração:") >>

\* C7: once the status listing has produced the ChangeSet, the array run
\* holds stays equal to it (length, order, every status and path) through
\* every analyze call, and every strategy was handed exactly that ChangeSet.
C7_ChangeSetUnchanged ==
    StatusListed =>
        /\ filesChanged = listed
        /\ \A i \in 1..Len(StrategyCalls) : StrategyCalls[i].arg = listed

\* all three strategies have run over a ChangeSet of two records
C7_Witness ==
    /\ pc = "done"
    /\ Len(StrategyCalls) = 3
    /\ Len(listed) = 2
    /\ filesChanged = listed

C9_AllStrategiesForEveryOption ==
    (pc = "done" /\ listed # << >>) =>
        /\ CallNames(StrategyCalls) =
              <<"FileListStrategy", "DirectorySummaryStrategy",
                "TypeSummaryStrategy">>
        /\ \/ /\ rev = "cli"
              /\ stdout[Len(stdout)].lines =
                    MessageHeader(options, listed) \o
                    FileListStrategy_analyze(listed).text \o
                    DirectorySummaryStrategy_analyze(listed).text \o
                    TypeSummaryStrategy_analyze(listed).text
           \/ /\ rev = "adr"
              /\ PrintedOfKind("report") =
                    << Printed("report", FileListStrategy_analyze(listed).text),
                       Printed("report",
                               DirectorySummaryStrategy_analyze(listed).text),
                       Printed("report",
                               TypeSummaryStrategy_analyze(listed).text) >>

\* C9 amended: the strategies a run applies are applied in the order file
\* list, directory summary, type summary; a run over a non-empty ChangeSet
\* that completes has applied all three and shows their reports in that
\* order when reports are on (always in the cli revision, this.verbose in
\* the adr revision), and has applied none and shows no report when
\* this.verbose is false in the adr revision.
C9_FixedOrderWhenReportsOn ==
    /\ IsPrefix(CallNames(StrategyCalls),
                <<"FileListStrategy", "DirectorySummaryStrategy",
                  "TypeSummaryStrategy">>)
    /\ (pc = "done" /\ listed # << >>) =>
          IF rev = "cli"
          THEN /\ Len(StrategyCalls) = 3
               /\ stdout[Len(stdout)].lines =
                     MessageHeader(options, listed) \o
                     FileListStrategy_analyze(listed).text \o
                     DirectorySummaryStrategy_analyze(listed).text \o
                     TypeSummaryStrategy_analyze(listed).text
          ELSE IF verbose
          THEN /\ Len(StrategyCalls) = 3
               /\ PrintedOfKind("report") =
                     << Printed("report",
                                FileListStrategy_analyze(listed).text),
                        Printed("report",
                                DirectorySummaryStrategy_analyze(listed).text),
                        Printed("report",
                                TypeSummaryStrategy_analyze(listed).text) >>
          ELSE /\ StrategyCalls = << >>
               /\ PrintedOfKind("report") = << >>

\* a verbose run of the adr revision has completed with its three reports
C9_Witness ==
    /\ pc = "done"
    /\ rev = "adr"
    /\ verbose
    /\ Len(listed) = 2
    /\ Len(PrintedOfKind("report")) = 3
    /\ cmd.tipo = "fix"

\* C10: a failure of any step leads straight to the catch clause; the run
\* then ends with exactly one error line "Erro: <message>" on standard
\* error and a non-zero exit status, with no generated commit message
\* printed; without a failure nothing is written to standard error and the
\* exit status stays zero.
C10_FailureReportedAndExitNonZero ==
    /\ error.raised => pc \in {"catch", "exited"}
    /\ pc = "exited" =>
          /\ error.raised
          /\ exitCode # 0
          /\ stderr = << Printed("error",
                                 << TextLine("Erro: " \o error.message) >>) >>
    /\ pc \in {"catch", "exited"} => PrintedOfKind("commit") = << >>
    /\ ~ error.raised => (exitCode = 0 /\ stderr = << >>)
    /\ exitCode # 0 => pc = "exited"

\* the text-generation call failed after the banner and reports were printed
C10_Witness ==
    /\ pc = "exited"
    /\ exitCode = 1
    /\ error.message = "Command failed: ollama run deepseek-r1:latest"
    /\ Len(PrintedOfKind("report")) = 3
    /\ Len(stderr) = 1

\* the lines of a text, each as [from, to]: the stretches between newlines
LineSpans(text) ==
    { sp \in (1..(Len(text) + 1)) \X (0..Len(text)) :
        /\ sp[1] = 1 \/ text[sp[1] - 1] = "\n"
        /\ sp[2] = Len(text) \/ text[sp[2] + 1] = "\n"
        /\ sp[2] >= sp[1] - 1
        /\ \A k \in sp[1]..sp[2] : text[k] # "\n" }

NonBlankSpans(text) ==
    { sp \in LineSpans(text) :
        \E k \in sp[1]..sp[2] : text[k] \notin {" ", "\t", "\n", "\r"} }

\* the i-th non-blank line of a text
NonBlankLine(text, i) ==
    LET sp == CHOOSE x \in NonBlankSpans(text) :
                  Cardinality({ y \in NonBlankSpans(text) : y[1] < x[1] }) = i - 1
    IN  SubSeq(text, sp[1], sp[2])

\* t is s without its leading and trailing whitespace
IsTrimOf(t, s) ==
    /\ t = << >> \/ (t[1] \notin {" ", "\t", "\n", "\r"}
                     /\ t[Len(t)] \notin {" ", "\t", "\n", "\r"})
    /\ \E a \in 1..(Len(s) + 1) :
          /\ a + Len(t) - 1 <= Len(s)
          /\ t = SubSeq(s, a, a + Len(t) - 1)
          /\ \A k \in 1..Len(s) :
                (k < a \/ k > a + Len(t) - 1) =>
                    s[k] \in {" ", "\t", "\n", "\r"}

\* C11: parseGitStatus returns one record per non-blank line of the output,
\* in line order; record i has as status the first two characters of the
\* i-th non-blank line, trimmed (whatever they are), and as path the text of
\* that line from offset 3, trimmed; blank lines give no record.
C11_OneRecordPerNonBlankLine ==
    pc = "parsed" =>
        /\ Len(listed) = Cardinality(NonBlankSpans(statusOutput))
        /\ \A i \in 1..Len(listed) :
              LET line == NonBlankLine(statusOutput, i)
              IN  /\ IsTrimOf(listed[i].status,
                              SubSeq(line, 1, IF Len(line) < 2 THEN Len(line)
                                              ELSE 2))
                  /\ IsTrimOf(listed[i].file, SubSeq(line, 4, Len(line)))

\* the output "aM a\n " parsed: an unknown code kept, a blank line dropped
C11_Witness ==
    /\ pc = "parsed"
    /\ statusOutput = <<"a", "M", " ", "a", "\n", " ">>
    /\ listed = << [status |-> <<"a", "M">>, file |-> <<"a">>] >>

\* a non-blank line that is not two status characters, a separator and a path
Malformed(line) ==
    \/ Len(line) < 4
    \/ line[3] # " "
    \/ \A k \in 4..Len(line) : line[k] \in {" ", "\t", "\n", "\r"}

\* C15 as stated: when the output has a line that is not a two-character
\* status, a separator and a path, parsing reports a parse error and
\* produces no record for it.
C15_MalformedLineRejected ==
    (pc = "parsed" /\ \E i \in 1..Cardinality(NonBlankSpans(statusOutput)) :
                         Malformed(NonBlankLine(statusOutput, i))) =>
        /\ error.raised
        /\ Len(listed) < Cardinality(NonBlankSpans(statusOutput))

\* C15 amended: parsing never reports an error; every non-blank line, well
\* formed or not, gives a record, and a line shorter than four characters
\* gives a record with the empty path.
C15_MalformedLineAccepted ==
    pc = "parsed" =>
        /\ ~ error.raised
        /\ Len(listed) = Cardinality(NonBlankSpans(statusOutput))
        /\ \A i \in 1..Len(listed) :
              Len(NonBlankLine(statusOutput, i)) < 4 =>
                  listed[i].file = << >>

\* the output "M\nMMa" parsed: two lines without a path, two records
C15_Witness ==
    /\ pc = "parsed"
    /\ statusOutput = <<"M", "\n", "M", "M", "a">>
    /\ Len(listed) = 2
    /\ listed[1] = [status |-> <<"M">>, file |-> << >>]
    /\ listed[2].file = << >>
    /\ ~ error.raised

\* the description the mapping table gives a status code
MappedDescription(code) ==
    CASE code = <<"M">> -> "modificado"
      [] code = <<"A">> -> "adicionado"
      [] code = <<"D">> -> "deletado"
      [] code = <<"R">> -> "renomeado"
      [] code = <<"?", "?">> -> "não rastreado"
      [] OTHER -> Str(code)

\* C12: FileListStrategy and TypeSummaryStrategy both render a status code
\* by the table M, A, D, R, ?? -> modificado, adicionado, deletado,
\* renomeado, não rastreado, and any other code (MM, AM, the empty code) as
\* the code itself.
C12_SameStatusMapping ==
    /\ applied = "FileListStrategy" =>
          \A i \in 1..Len(listed) :
              report.text[i + 1].text =
                  Str(listed[i].file) \o " (" \o
                  MappedDescription(listed[i].status) \o ")"
    /\ applied = "TypeSummaryStrategy" =>
          LET typeLines == LinesTagged(report.text, "type")
          IN  /\ Len(typeLines) =
                    Cardinality({ listed[i].status : i \in 1..Len(listed) })
              /\ { typeLines[i].text : i \in 1..Len(typeLines) } =
                    { MappedDescription(listed[i].status) :
                        i \in 1..Len(listed) }

\* a renamed file, a code AM and the empty code summarised by type
C12_Witness ==
    /\ applied = "TypeSummaryStrategy"
    /\ Len(listed) = 3
    /\ listed[1].status = <<"R">>
    /\ listed[2].status = <<"A", "M">>
    /\ listed[3].status = << >>
    /\ LinesTagged(report.text, "type") =
          << TypeLine(1, "renomeado"), TypeLine(1, "AM"), TypeLine(1, "") >>

HasNoDirectory(rec) == \A k \in 1..Len(rec.file) : rec.file[k] # "/"

\* C13: a record whose path has no directory component is listed by
\* FileListStrategy under its bare file name, and is counted by
\* DirectorySummaryStrategy in the one group headed "raiz", which holds all
\* such records of the ChangeSet and no record that has a directory.
C13_RootGroup ==
    /\ applied = "FileListStrategy" =>
          \A i \in 1..Len(listed) :
              HasNoDirectory(listed[i]) =>
                  report.text[i + 1].text =
                      Str(listed[i].file) \o " (" \o
                      FileListStrategy_getStatusDescription(listed[i].status)
                      \o ")"
    /\ applied = "DirectorySummaryStrategy" =>
          LET isRaiz(l) == l.tag = "dir" /\ l.text = "raiz"
              raiz == SelectSeq(report.text, isRaiz)
              anyRoot == \E i \in 1..Len(listed) : HasNoDirectory(listed[i])
          IN  /\ anyRoot =>
                    /\ ~ report.thrown
                    /\ Len(raiz) = 1
                    /\ raiz[1].num = CountWhere(listed, HasNoDirectory)
              /\ (~ anyRoot /\ ~ report.thrown) => Len(raiz) = 0

\* the calls of the text-generation collaborator in the current invocation
GenerateCalls ==
    LET is(c) == c.name = "generateCommitMessage" IN SelectSeq(calls, is)

\* generateCommitMessage has returned a message in the current invocation
Generated == Len(GenerateCalls) > 0 /\ pc \in {"print", "done"}

\* C14 as stated: the diff text stands in the prompt character for
\* character between the fixed texts of the template, and the message
\* returned is the response of the process as it is.
C14_DiffAndResponseUnmodified ==
    Generated =>
        /\ prompt = PromptHead \o diffOutput \o PromptTail
        /\ commitMessage = response

\* C14 amended: the prompt handed to the process is the template with the
\* diff in it, every ' and every ´ of the diff replaced by ", all other
\* characters kept; the message returned is the response without its
\* leading and trailing whitespace.
C14_QuotesReplacedResponseTrimmed ==
    Generated =>
        /\ Len(prompt) = Len(PromptHead) + Len(diffOutput) + Len(PromptTail)
        /\ SubSeq(prompt, 1, Len(PromptHead)) = PromptHead
        /\ SubSeq(prompt, Len(PromptHead) + Len(diffOutput) + 1, Len(prompt))
              = PromptTail
        /\ \A i \in 1..Len(diffOutput) :
              prompt[Len(PromptHead) + i] =
                  IF diffOutput[i] = "'" \/ diffOutput[i] = "´"
                  THEN "\"" ELSE diffOutput[i]
        /\ IsTrimOf(commitMessage, response)

\* a diff with both quote characters, a response with whitespace around it
C14_Witness ==
    /\ pc = "done"
    /\ diffOutput = <<"+", "'", "a", "´">>
    /\ prompt = PromptHead \o <<"+", "\"", "a", "\"">> \o PromptTail
    /\ response = <<" ", "o", "k", "\n">>
    /\ commitMessage = <<"o", "k">>

\* the staged-diff listing of the current invocation has succeeded
DiffListed ==
    /\ rev = "adr"
    /\ pc \notin {"idle", "status", "diff", "strategy", "parse", "parsed"}
    /\ ~ (error.raised /\
          error.message \in {"Command failed: git status --porcelain",
                             "Command failed: git diff --staged"})

\* C16: in one invocation the text-generation collaborator is called at most
\* once, only with a non-empty ChangeSet and after the status listing and
\* the staged-diff listing have both succeeded; its message is printed only
\* after it has returned without error, and is then the last thing printed,
\* after the banner and every report.
C16_GenerateOnceMessagePrintedLast ==
    /\ Len(GenerateCalls) <= 1
    /\ Len(GenerateCalls) = 1 =>
          /\ listed # << >>
          /\ StatusListed
          /\ DiffListed
    /\ Len(PrintedOfKind("commit")) <= 1
    /\ Len(PrintedOfKind("commit")) = 1 =>
          /\ Len(GenerateCalls) = 1
          /\ ~ error.raised
          /\ stderr = << >>
          /\ pc = "done"
          /\ stdout[Len(stdout)].kind = "commit"
          /\ \E i \in 1..(Len(stdout) - 1) : stdout[i].kind = "banner"
          /\ \A i \in 1..(Len(stdout) - 1) :
                stdout[i].kind \in {"option", "banner", "report"}
    /\ (error.raised /\ Len(GenerateCalls) = 1) =>
          Len(PrintedOfKind("commit")) = 0

\* a verbose run that printed the banner, three reports and the message
C16_Witness ==
    /\ pc = "done"
    /\ Len(GenerateCalls) = 1
    /\ Len(PrintedOfKind("report")) = 3
    /\ stdout[Len(stdout)] = Printed("commit", <<TextLine("ok")>>)

\* a run whose generateCommitMessage call failed
C16_WitnessFailed ==
    /\ pc = "exited"
    /\ Len(GenerateCalls) = 1
    /\ error.raised
    /\ Len(PrintedOfKind("report")) = 3

\* C17: when a call of the temporary-file revision of generateCommitMessage
\* has ended, by returning the message or by rethrowing the error of the
\* process, the prompt file it wrote does not exist.
C17_TempFileGoneWhenCallEnds ==
    pc \in {"returned", "rethrown"} => ~ tempFile.exists

\* the process failed after the prompt of two files had been written
C17_Witness ==
    /\ pc = "rethrown"
    /\ error.raised
    /\ Len(filesChanges) = 2
    /\ prompt = TempFilePrompt(filesChanges)
    /\ ~ tempFile.exists

\* the process answered and the message was returned
C17_WitnessReturned ==
    /\ pc = "returned"
    /\ Len(filesChanges) = 2
    /\ prompt = TempFilePrompt(filesChanges)
    /\ commitMessage = <<"o", "k">>
    /\ ~ tempFile.exists

====
